---- MODULE Spec2Model ----
(***************************************************************************)
(* AutoRipService (src/src/services/auto-rip.service.js): the polling,     *)
(* dedup and dispatch loop.  One JavaScript event loop runs the service:   *)
(* every action below is one run-to-completion piece of a handler, from    *)
(* its entry (or from the await it resumes at) to the next await.          *)
(***************************************************************************)
EXTENDS Integers, FiniteSets, Sequences, TLC

\* ------------------------------------------------------------------ bounds
NumDrives == 2      \* drive slots watched
NumTitles == 2      \* distinct disc titles in circulation
MaxTasks  == 2      \* timer callbacks that can be suspended at an await at once
MaxTimers == 2      \* interval timers that can be armed at once
MaxInserts == 2     \* disc insertions in one run of the model

Drives   == 1..NumDrives
Titles   == 1..NumTitles
NoTitle  == 0       \* Map.get() of an absent key / an empty drive
TaskIds  == 1..MaxTasks
TimerIds == 1..MaxTimers
NoTimer  == 0       \* this.pollInterval = null

\* ------------------------------------------------------------------- state
VARIABLES
    isPolling,          \* this.isPolling
    pollInterval,       \* this.pollInterval: the handle setInterval returned, or NoTimer
    timers,             \* the interval timers armed in the event loop
    processedDiscs,     \* this.processedDiscs: driveNumber -> title (NoTitle: no entry)
    currentOperation,   \* this.currentOperation: "null" or "processing"
    isChecking,         \* this.isChecking
    tasks,              \* the timer callbacks in flight, each suspended at an await
    drives,             \* the world: the title in each drive (NoTitle: empty)
    autoRipMode,        \* AppConfig.autoRipMode
    inserted,           \* the world: disc insertions so far
    status,             \* the "status" events: the last one, and whether the last step emitted it
    ins,                \* history, per drive, of the disc insertion in progress
    sincePurge,         \* history: pipeline calls per drive since its tracker entry was last purged
    failedHeld          \* history: the drive still holds the disc of a failed batch

vars == <<isPolling, pollInterval, timers, processedDiscs, currentOperation,
          isChecking, tasks, drives, autoRipMode, inserted, status, ins, sincePurge,
          failedHeld>>

env == <<drives, inserted>>

service == <<isPolling, pollInterval, timers, processedDiscs, currentOperation, isChecking>>

\* ----------------------------------------------------------------- helpers
Disc(d, t)     == [driveNumber |-> d, title |-> t]
Complete(disc) == [driveNumber |-> disc.driveNumber, title |-> disc.title, fileInfo |-> TRUE]

DrivesOf(items) == {x.driveNumber : x \in items}

Sat(n) == IF n >= 2 THEN 2 ELSE n + 1

IdleTask == [pc |-> "idle", newDiscs |-> {}, batch |-> {}, entry |-> "none",
             outcome |-> "none", purged |-> {}]

\* DiscService.detectAvailableDiscs(): one record per drive holding a disc
DetectAvailableDiscs(world) ==
    {Disc(d, world[d]) : d \in {x \in Drives : world[x] # NoTitle}}

\* DiscService.getCompleteDiscInfo(newDiscs): the same records with their file info
GetCompleteDiscInfo(newDiscs) == {Complete(x) : x \in newDiscs}

\* the guard of the timer callback
GateClosed_NoCheckFlag(op, chk) == op # "null"

GateClosed(op, chk) == op # "null" \/ chk

\* detectedDriveMap: driveNumber -> title of the detected discs
DetectedDriveMap(detectedDiscs) ==
    [d \in Drives |->
        IF \E x \in detectedDiscs : x.driveNumber = d
        THEN (CHOOSE x \in detectedDiscs : x.driveNumber = d).title
        ELSE NoTitle]

\* the cleanup loop: delete the entries whose drive is empty or holds another title
Cleanup_KeepAll(pd, dmap) == pd

Cleanup(pd, dmap) ==
    [d \in Drives |->
        IF pd[d] # NoTitle /\ (dmap[d] = NoTitle \/ dmap[d] # pd[d])
        THEN NoTitle ELSE pd[d]]

\* the filter: the detected discs whose drive has no entry
NewDiscs_NoFilter(pd, detectedDiscs) == detectedDiscs

NewDiscs(pd, detectedDiscs) == {x \in detectedDiscs : pd[x.driveNumber] = NoTitle}

\* commandDataItems.forEach(item => processedDiscs.set(item.driveNumber, item.title))
MarkProcessed_Skip(pd, items) == pd

MarkProcessed(pd, items) ==
    [d \in Drives |->
        IF \E x \in items : x.driveNumber = d
        THEN (CHOOSE x \in items : x.driveNumber = d).title
        ELSE pd[d]]

\* (variant: the mode is not looked at)
EntryPoint_AlwaysRip(mode) == "rip"

\* mode === "backup" ? processBackupQueue : processRippingQueue
EntryPoint(mode) == IF mode = "backup" THEN "backup" ELSE "rip"

Publish(state) == [last |-> state, fresh |-> TRUE]
Quiet          == [last |-> status.last, fresh |-> FALSE]

InFlight == {t \in TaskIds : tasks[t].pc # "idle"}

\* -------------------------------------------------------------------- Init
Init ==
    /\ isPolling = FALSE
    /\ pollInterval = NoTimer
    /\ timers = {}
    /\ processedDiscs = [d \in Drives |-> NoTitle]
    /\ currentOperation = "null"
    /\ isChecking = FALSE
    /\ tasks = [t \in TaskIds |-> IdleTask]
    /\ drives = [d \in Drives |-> NoTitle]
    /\ inserted = 0
    /\ autoRipMode \in {"rip", "backup"}
    /\ status = [last |-> "none", fresh |-> FALSE]
    /\ ins = [d \in Drives |-> [n |-> 0, m |-> 0, clean |-> FALSE,
                                 gone |-> NoTitle, seen |-> FALSE]]
    /\ sincePurge = [d \in Drives |-> 0]
    /\ failedHeld = [d \in Drives |-> FALSE]

\* ----------------------------------------------------------- the world
InsertDisc(d, t) ==
    /\ drives[d] = NoTitle
    /\ inserted < MaxInserts
    /\ inserted' = inserted + 1
    /\ drives' = [drives EXCEPT ![d] = t]
    /\ ins' = [ins EXCEPT ![d] = [n |-> 0, m |-> 0, clean |-> isPolling,
                                  gone |-> ins[d].gone, seen |-> ins[d].seen]]
    /\ failedHeld' = [failedHeld EXCEPT ![d] = FALSE]
    /\ status' = Quiet
    /\ UNCHANGED <<service, tasks, autoRipMode, sincePurge>>

\* history of an ejection: a disc that was dispatched under its title leaves a gap
\* to be observed; a disc that was not leaves the gap of its predecessor open,
\* unless it was itself the reinserted disc
GoneAfterEject(d) ==
    LET over == [ins[d] EXCEPT !.n = 0, !.m = 0, !.clean = FALSE]
    IN  IF ins[d].m >= 1 THEN [over EXCEPT !.gone = drives[d], !.seen = FALSE]
        ELSE IF ins[d].gone = drives[d] THEN [over EXCEPT !.gone = NoTitle, !.seen = FALSE]
        ELSE over

EjectDisc(d) ==
    /\ drives[d] # NoTitle
    /\ drives' = [drives EXCEPT ![d] = NoTitle]
    /\ ins' = [ins EXCEPT ![d] = GoneAfterEject(d)]
    /\ failedHeld' = [failedHeld EXCEPT ![d] = FALSE]
    /\ status' = Quiet
    /\ UNCHANGED <<service, tasks, autoRipMode, inserted, sincePurge>>

\* --------------------------------------------------------- start / stop
\* (variant: the handle is dropped without clearInterval)
StopPollingTimers_Leak(armed, handle) == armed

\* stopPolling(): clearInterval(this.pollInterval); this.pollInterval = null
StopPollingTimers(armed, handle) == IF handle # NoTimer THEN armed \ {handle} ELSE armed

\* (variant: start() without its already-running guard)
start_NoGuard ==
    /\ isPolling' = TRUE
    /\ \E id \in TimerIds :
           /\ id \notin StopPollingTimers(timers, pollInterval)
           /\ \A o \in TimerIds : o < id => o \in StopPollingTimers(timers, pollInterval)
           /\ timers' = StopPollingTimers(timers, pollInterval) \cup {id}
           /\ pollInterval' = id
    /\ status' = Publish("scanning")
    /\ UNCHANGED <<processedDiscs, currentOperation, isChecking, tasks, env,
                   autoRipMode, ins, sincePurge, failedHeld>>

\* start(), with startPolling() inlined: stopPolling(), then setInterval
start ==
    IF isPolling
    THEN /\ status' = Quiet
         /\ UNCHANGED <<service, tasks, env, autoRipMode, ins, sincePurge, failedHeld>>
    ELSE /\ isPolling' = TRUE
         /\ \E id \in TimerIds :
                /\ id \notin StopPollingTimers(timers, pollInterval)
                /\ \A o \in TimerIds : o < id => o \in StopPollingTimers(timers, pollInterval)
                /\ timers' = StopPollingTimers(timers, pollInterval) \cup {id}
                /\ pollInterval' = id
         /\ status' = Publish("scanning")
         /\ UNCHANGED <<processedDiscs, currentOperation, isChecking, tasks, env,
                        autoRipMode, ins, sincePurge, failedHeld>>

\* (variant: stop() also empties the tracker)
stop_ClearTracker ==
    IF ~isPolling
    THEN /\ status' = Quiet
         /\ UNCHANGED <<service, tasks, env, autoRipMode, ins, sincePurge, failedHeld>>
    ELSE /\ isPolling' = FALSE
         /\ timers' = StopPollingTimers(timers, pollInterval)
         /\ pollInterval' = NoTimer
         /\ processedDiscs' = [d \in Drives |-> NoTitle]
         /\ status' = Publish("idle")
         /\ ins' = [d \in Drives |-> [ins[d] EXCEPT !.clean = FALSE]]
         /\ UNCHANGED <<currentOperation, isChecking, tasks, env,
                        autoRipMode, sincePurge, failedHeld>>

stop ==
    IF ~isPolling
    THEN /\ status' = Quiet
         /\ UNCHANGED <<service, tasks, env, autoRipMode, ins, sincePurge, failedHeld>>
    ELSE /\ isPolling' = FALSE
         /\ timers' = StopPollingTimers(timers, pollInterval)
         /\ pollInterval' = NoTimer
         /\ status' = Publish("idle")
         /\ ins' = [d \in Drives |-> [ins[d] EXCEPT !.clean = FALSE]]
         /\ UNCHANGED <<processedDiscs, currentOperation, isChecking, tasks, env,
                        autoRipMode, sincePurge, failedHeld>>

\* getStatus(): the value it returns
GetStatus == [isPolling |-> isPolling, currentOperation |-> currentOperation]

\* a call of getStatus()
getStatus ==
    /\ status' = Quiet
    /\ UNCHANGED <<service, tasks, env, autoRipMode, ins, sincePurge, failedHeld>>

\* ------------------------------------------------------- the timer callback
\* the task slot a new callback invocation occupies
FreeSlot(t) == tasks[t].pc = "idle" /\ \A o \in TaskIds : o < t => tasks[o].pc # "idle"

\* history of a failed collaborator call: no insertion in progress is "clean" any more
Unclean == [d \in Drives |-> [ins[d] EXCEPT !.clean = FALSE]]

\* a tick of the interval timer: the callback up to its first await
TimerTick(id) ==
    /\ id \in timers
    /\ status' = Quiet
    /\ IF GateClosed(currentOperation, isChecking)
       THEN UNCHANGED <<service, tasks>>
       ELSE /\ isChecking' = TRUE
            /\ \E t \in TaskIds :
                   /\ FreeSlot(t)
                   /\ tasks' = [tasks EXCEPT ![t] = [IdleTask EXCEPT !.pc = "import"]]
            /\ UNCHANGED <<isPolling, pollInterval, timers, processedDiscs, currentOperation>>
    /\ UNCHANGED <<env, autoRipMode, ins, sincePurge, failedHeld>>

\* checkDrives: the dynamic import resolves and detectAvailableDiscs() is called
ImportResolved(t) ==
    /\ tasks[t].pc = "import"
    /\ tasks' = [tasks EXCEPT ![t].pc = "detect"]
    /\ status' = Quiet
    /\ UNCHANGED <<service, env, autoRipMode, ins, sincePurge, failedHeld>>

\* history of a detection: the drives observed without the disc that left them
SeenAfterScan ==
    [d \in Drives |->
        IF ins[d].gone # NoTitle /\ drives[d] # ins[d].gone
        THEN [ins[d] EXCEPT !.seen = TRUE] ELSE ins[d]]

\* checkDrives: detectAvailableDiscs() returns; cleanup, filter, then either the
\* cycle ends or getCompleteDiscInfo(newDiscs) is called
DetectReturn(t) ==
    /\ tasks[t].pc = "detect"
    /\ LET detectedDiscs == DetectAvailableDiscs(drives)
           dmap          == DetectedDriveMap(detectedDiscs)
           cleaned       == Cleanup(processedDiscs, dmap)
           newDiscs      == NewDiscs(cleaned, detectedDiscs)
           purged        == {d \in Drives : processedDiscs[d] # NoTitle /\ cleaned[d] = NoTitle}
       IN  /\ processedDiscs' = cleaned
           /\ sincePurge' = [d \in Drives |-> IF d \in purged THEN 0 ELSE sincePurge[d]]
           /\ tasks' = [tasks EXCEPT ![t] =
                  IF newDiscs = {}
                  THEN [IdleTask EXCEPT !.pc = "finally", !.outcome = "nonew", !.purged = purged]
                  ELSE [IdleTask EXCEPT !.pc = "enrich", !.newDiscs = newDiscs, !.purged = purged]]
    /\ ins' = SeenAfterScan
    /\ status' = Quiet
    /\ UNCHANGED <<isPolling, pollInterval, timers, currentOperation, isChecking,
                   env, autoRipMode, failedHeld>>

\* checkDrives: detectAvailableDiscs() raises; the catch logs and the cycle ends
DetectFail(t) ==
    /\ tasks[t].pc = "detect"
    /\ tasks' = [tasks EXCEPT ![t] = [IdleTask EXCEPT !.pc = "finally", !.outcome = "scanerror"]]
    /\ ins' = Unclean
    /\ status' = Quiet
    /\ UNCHANGED <<service, env, autoRipMode, sincePurge, failedHeld>>

\* history of a pipeline call with the batch items
InsAfterInvoke(items) ==
    [d \in Drives |->
        IF d \in DrivesOf(items) /\ drives[d] # NoTitle
        THEN IF Disc(d, drives[d]) \in {Disc(x.driveNumber, x.title) : x \in items}
             THEN [ins[d] EXCEPT !.n = Sat(ins[d].n), !.m = Sat(ins[d].m),
                                 !.gone = NoTitle, !.seen = FALSE]
             ELSE [ins[d] EXCEPT !.n = Sat(ins[d].n)]
        ELSE ins[d]]

\* checkDrives: getCompleteDiscInfo() returns, and processDiscs(completeDiscItems)
\* runs up to its await of the pipeline call
EnrichReturn(t) ==
    /\ tasks[t].pc = "enrich"
    /\ LET commandDataItems == GetCompleteDiscInfo(tasks[t].newDiscs)
       IN  IF commandDataItems = {}
           THEN /\ tasks' = [tasks EXCEPT ![t] =
                        [IdleTask EXCEPT !.pc = "finally", !.outcome = "nonew",
                                         !.purged = tasks[t].purged]]
                /\ status' = Quiet
                /\ UNCHANGED <<service, ins, sincePurge>>
           ELSE /\ currentOperation' = "processing"
                /\ status' = Publish("processing")
                /\ processedDiscs' = MarkProcessed(processedDiscs, commandDataItems)
                /\ tasks' = [tasks EXCEPT ![t] =
                        [tasks[t] EXCEPT !.pc = "pipeline", !.batch = commandDataItems,
                                         !.entry = EntryPoint(autoRipMode)]]
                /\ ins' = InsAfterInvoke(commandDataItems)
                /\ sincePurge' = [d \in Drives |->
                        IF d \in DrivesOf(commandDataItems) THEN Sat(sincePurge[d])
                        ELSE sincePurge[d]]
                /\ UNCHANGED <<isPolling, pollInterval, timers, isChecking>>
    /\ UNCHANGED <<env, autoRipMode, failedHeld>>

\* (variant: the new discs were marked processed before the enrichment call)
EnrichFail_Marked(t) ==
    /\ tasks[t].pc = "enrich"
    /\ tasks' = [tasks EXCEPT ![t] =
            [IdleTask EXCEPT !.pc = "finally", !.outcome = "scanerror",
                             !.newDiscs = tasks[t].newDiscs, !.purged = tasks[t].purged]]
    /\ processedDiscs' = MarkProcessed(processedDiscs, tasks[t].newDiscs)
    /\ ins' = Unclean
    /\ status' = Quiet
    /\ UNCHANGED <<isPolling, pollInterval, timers, currentOperation, isChecking,
                   env, autoRipMode, sincePurge, failedHeld>>

\* checkDrives: getCompleteDiscInfo() raises; the catch logs and the cycle ends
EnrichFail(t) ==
    /\ tasks[t].pc = "enrich"
    /\ tasks' = [tasks EXCEPT ![t] =
            [IdleTask EXCEPT !.pc = "finally", !.outcome = "scanerror",
                             !.newDiscs = tasks[t].newDiscs, !.purged = tasks[t].purged]]
    /\ ins' = Unclean
    /\ status' = Quiet
    /\ UNCHANGED <<service, env, autoRipMode, sincePurge, failedHeld>>

\* (variant: the finally block does not reset currentOperation)
ProcessDiscsFinally_NoClear(t, outcome) ==
    /\ status' = Publish("scanning")
    /\ tasks' = [tasks EXCEPT ![t] = [tasks[t] EXCEPT !.pc = "finally", !.outcome = outcome]]
    /\ UNCHANGED <<isPolling, pollInterval, timers, isChecking, env, autoRipMode, sincePurge,
                   currentOperation>>

\* processDiscs: the finally block, and the return into checkDrives
ProcessDiscsFinally(t, outcome) ==
    /\ currentOperation' = "null"
    /\ status' = Publish("scanning")
    /\ tasks' = [tasks EXCEPT ![t] = [tasks[t] EXCEPT !.pc = "finally", !.outcome = outcome]]
    /\ UNCHANGED <<isPolling, pollInterval, timers, isChecking, env, autoRipMode, sincePurge>>

\* processDiscs: the pipeline call returns
PipelineReturn(t) ==
    /\ tasks[t].pc = "pipeline"
    /\ ProcessDiscsFinally(t, "ok")
    /\ UNCHANGED <<processedDiscs, ins, failedHeld>>

\* history of a failed pipeline call: the drives that still hold a disc of its batch
HeldAfterFailure(items) ==
    [d \in Drives |->
        IF Disc(d, drives[d]) \in {Disc(x.driveNumber, x.title) : x \in items}
        THEN TRUE ELSE failedHeld[d]]

\* (variant: a failed run takes its batch out of the tracker again)
PipelineFail_Unmark(t) ==
    /\ tasks[t].pc = "pipeline"
    /\ ProcessDiscsFinally(t, "failed")
    /\ processedDiscs' = [d \in Drives |->
            IF d \in DrivesOf(tasks[t].batch) THEN NoTitle ELSE processedDiscs[d]]
    /\ ins' = Unclean
    /\ failedHeld' = HeldAfterFailure(tasks[t].batch)

\* processDiscs: the pipeline call raises; the catch logs
PipelineFail(t) ==
    /\ tasks[t].pc = "pipeline"
    /\ ProcessDiscsFinally(t, "failed")
    /\ UNCHANGED processedDiscs
    /\ ins' = Unclean
    /\ failedHeld' = HeldAfterFailure(tasks[t].batch)

\* (variant: the callback has no finally block, the scan flag stays set)
TickFinally_NoClear(t) ==
    /\ tasks[t].pc = "finally"
    /\ tasks' = [tasks EXCEPT ![t] = IdleTask]
    /\ status' = Quiet
    /\ UNCHANGED <<service, env, autoRipMode, ins, sincePurge, failedHeld>>

\* the timer callback's finally block
TickFinally(t) ==
    /\ tasks[t].pc = "finally"
    /\ isChecking' = FALSE
    /\ tasks' = [tasks EXCEPT ![t] = IdleTask]
    /\ status' = Quiet
    /\ UNCHANGED <<isPolling, pollInterval, timers, processedDiscs, currentOperation,
                   env, autoRipMode, ins, sincePurge, failedHeld>>

\* ------------------------------------------------------------ specification
Next ==
    \/ start
    \/ stop
    \/ getStatus
    \/ \E id \in TimerIds : TimerTick(id)
    \/ \E t \in TaskIds : ImportResolved(t)
    \/ \E t \in TaskIds : DetectReturn(t)
    \/ \E t \in TaskIds : DetectFail(t)
    \/ \E t \in TaskIds : EnrichReturn(t)
    \/ \E t \in TaskIds : EnrichFail(t)
    \/ \E t \in TaskIds : PipelineReturn(t)
    \/ \E t \in TaskIds : PipelineFail(t)
    \/ \E t \in TaskIds : TickFinally(t)
    \/ \E d \in Drives, t \in Titles : InsertDisc(d, t)
    \/ \E d \in Drives : EjectDisc(d)

Spec == Init /\ [][Next]_vars

TypeOK ==
    /\ isPolling \in BOOLEAN /\ isChecking \in BOOLEAN
    /\ pollInterval \in TimerIds \cup {NoTimer}
    /\ timers \subseteq TimerIds
    /\ processedDiscs \in [Drives -> Titles \cup {NoTitle}]
    /\ currentOperation \in {"null", "processing"}
    /\ drives \in [Drives -> Titles \cup {NoTitle}]

\* ------------------------------------------------------- steps, as seen from outside
\* a scan cycle starts: a timer callback passes the gate
Started(t)    == tasks[t].pc = "idle" /\ tasks'[t].pc # "idle"
\* detectAvailableDiscs() returned and the cycle ran its cleanup and filter
Scanned(t)    == /\ tasks[t].pc = "detect"
                 /\ tasks'[t].pc \in {"enrich", "finally"}
                 /\ tasks'[t].outcome # "scanerror"
\* the pipeline entry point is called
Invoked(t)    == tasks[t].pc = "enrich" /\ tasks'[t].pc = "pipeline"
\* the inventory raised: the detection call or the enrichment call
ScanFailed(t) == /\ tasks[t].pc \in {"detect", "enrich"}
                 /\ tasks'[t].pc = "finally" /\ tasks'[t].outcome = "scanerror"
\* a processing run ends
Ended(t)      == tasks[t].pc = "pipeline" /\ tasks'[t].pc = "finally"
Failed(t)     == Ended(t) /\ tasks'[t].outcome = "failed"
\* the timer callback returns
Returned(t)   == tasks[t].pc = "finally" /\ tasks'[t].pc = "idle"

Plain(items)  == {Disc(x.driveNumber, x.title) : x \in items}

\* the disc lists the inventory can report: at most one disc per drive
Snapshots == {DetectAvailableDiscs(w) : w \in [Drives -> Titles \cup {NoTitle}]}

\* the discs a scan cycle would select from the tracker pd when it detects snap
WouldSelect(pd, snap) == NewDiscs(Cleanup(pd, DetectedDriveMap(snap)), snap)

\* ------------------------------------------------------------------ claims

\* C1 (as stated): while the service polls and no collaborator call fails, every
\* disc insertion causes exactly one pipeline call whose batch contains its drive:
\* never more than one while the disc is in, and one by the time it is ejected.
C1_ExactlyOncePerInsertion ==
    [][\A d \in Drives :
          /\ ins'[d].clean => ins'[d].n <= 1
          /\ (drives[d] # NoTitle /\ drives'[d] = NoTitle /\ ins[d].clean) => ins[d].n = 1]_vars

\* C1 (amended): every disc insertion causes at most one pipeline call whose batch
\* holds the drive under the title of the inserted disc.
C1_AtMostOncePerInsertion == \A d \in Drives : ins[d].m <= 1

\* a disc was dispatched under its title, and a later scan cycle found nothing new
C1_Witness ==
    \E d \in Drives, t \in TaskIds :
        /\ drives[d] # NoTitle /\ ins[d].m = 1 /\ ins[d].clean
        /\ tasks[t].pc = "finally" /\ tasks[t].outcome = "nonew"

\* C2: at most one scan cycle is in flight, at most one processing run is in
\* flight, and no scan cycle is in flight next to a processing run of another
\* callback, whatever start(), stop(), the timer and the collaborators do.
C2_Serialized ==
    /\ Cardinality(InFlight) <= 1
    /\ Cardinality({t \in TaskIds : tasks[t].pc = "pipeline"}) <= 1
    /\ \A t \in TaskIds : tasks[t].pc = "pipeline" => InFlight = {t}

\* a run is in flight after stop() and start() were called during it, timer armed
C2_Witness ==
    \E t \in TaskIds :
        /\ tasks[t].pc = "pipeline" /\ isPolling /\ timers # {}
        /\ status.last = "scanning"

\* C3: a scan cycle that observes drive D still holding the title the tracker has
\* for it keeps the entry and leaves D out of its new discs; a batch holds only
\* new discs of its cycle, whose drives had no entry; and an entry disappears only
\* in the cleanup of a scan cycle that observed the drive empty or under another title.
C3_Idempotency ==
    [][\A t \in TaskIds, d \in Drives :
          /\ (Scanned(t) /\ processedDiscs[d] # NoTitle /\ drives[d] = processedDiscs[d])
                => /\ processedDiscs'[d] = processedDiscs[d]
                   /\ d \notin DrivesOf(tasks'[t].newDiscs)
          /\ (Invoked(t) /\ d \in DrivesOf(tasks'[t].batch))
                => /\ processedDiscs[d] = NoTitle
                   /\ Plain(tasks'[t].batch) \subseteq tasks[t].newDiscs
          /\ (processedDiscs[d] # NoTitle /\ processedDiscs'[d] = NoTitle)
                => \E u \in TaskIds : Scanned(u) /\ drives[d] # processedDiscs[d]]_vars

\* a cycle selected a new disc while another drive kept its processed disc
C3_Witness ==
    \E t \in TaskIds, d1, d2 \in Drives :
        /\ tasks[t].pc = "enrich"
        /\ processedDiscs[d1] # NoTitle /\ drives[d1] = processedDiscs[d1]
        /\ d1 \notin DrivesOf(tasks[t].newDiscs)
        /\ d2 \in DrivesOf(tasks[t].newDiscs)

\* C4: a scan cycle that observes a tracked drive empty or under another title
\* purges its entry, a disc it observes in a drive without entry is new, the
\* whole of the new discs is dispatched, and between two purges of a drive at
\* most one pipeline call has the drive in its batch.
C4_Reconsideration ==
    [][/\ \A t \in TaskIds, d \in Drives :
             /\ (Scanned(t) /\ processedDiscs[d] # NoTitle /\ drives[d] # processedDiscs[d])
                   => /\ processedDiscs'[d] = NoTitle
                      /\ drives[d] # NoTitle => Disc(d, drives[d]) \in tasks'[t].newDiscs
             /\ Invoked(t) => Plain(tasks'[t].batch) = tasks[t].newDiscs
       /\ \A d \in Drives : sincePurge'[d] <= 1]_vars

\* a drive whose entry the cycle purged is in the batch of that cycle's run
C4_Witness ==
    \E t \in TaskIds, d \in Drives :
        /\ tasks[t].pc = "pipeline"
        /\ d \in tasks[t].purged /\ d \in DrivesOf(tasks[t].batch)
        /\ sincePurge[d] = 1

\* C5: while a pipeline call is in flight the tracker holds every disc of its
\* batch, and a scan cycle detecting those discs (and any others) selects none
\* of them as new.
C5_MarkBeforeWork ==
    \A t \in TaskIds :
        tasks[t].pc = "pipeline" =>
            /\ tasks[t].batch # {}
            /\ \A x \in tasks[t].batch : processedDiscs[x.driveNumber] = x.title
            /\ \A snap \in Snapshots :
                   Plain(tasks[t].batch) \subseteq snap =>
                       WouldSelect(processedDiscs, snap) \cap Plain(tasks[t].batch) = {}

\* a pipeline call with a batch of two discs is in flight
C5_Witness ==
    \E t \in TaskIds : tasks[t].pc = "pipeline" /\ Cardinality(tasks[t].batch) = 2

\* C6: when the pipeline call fails, the run still ends in the callback's normal
\* path with the processing flag cleared, polling and its timer as they were and
\* the tracker holding every entry of the batch; and no later pipeline call has
\* in its batch a drive that still holds a disc of a failed batch.
C6_FailureSwallowed ==
    [][\A t \in TaskIds :
          /\ Failed(t) =>
                /\ currentOperation' = "null"
                /\ isPolling' = isPolling /\ timers' = timers /\ pollInterval' = pollInterval
                /\ isChecking' = isChecking
                /\ \A x \in tasks[t].batch : processedDiscs'[x.driveNumber] = x.title
          /\ \A d \in Drives :
                (Invoked(t) /\ d \in DrivesOf(tasks'[t].batch)) => ~failedHeld[d]]_vars

\* after a failed run, a later scan cycle with the failed disc still in its drive
\* found nothing new, the service still polling
C6_Witness ==
    \E t \in TaskIds, d \in Drives :
        /\ failedHeld[d] /\ isPolling /\ timers # {}
        /\ tasks[t].pc = "finally" /\ tasks[t].outcome = "nonew"

\* the lifecycle phase of the service
Phase ==
    IF currentOperation = "processing" THEN "processing"
    ELSE IF isPolling THEN "scanning" ELSE "idle"

\* C7 (as stated): when a processing run ends the processing flag is cleared, and
\* 'scanning' is published in that step exactly if polling is still active.
C7_ScanningOnlyIfPolling ==
    [][\A t \in TaskIds :
          Ended(t) =>
              /\ currentOperation' = "null"
              /\ (status'.fresh /\ status'.last = "scanning") <=> isPolling]_vars

\* C8 (as stated): once a status has been published, the last published status is
\* the current lifecycle phase.
C8_StatusIsPhase == status.last # "none" => status.last = Phase

\* a step of the callback t that is suspended at an await
Resume(t) ==
    \/ ImportResolved(t) \/ DetectReturn(t) \/ DetectFail(t) \/ EnrichReturn(t)
    \/ EnrichFail(t) \/ PipelineReturn(t) \/ PipelineFail(t) \/ TickFinally(t)

\* C9: no scan cycle starts while the service is stopped; stop() leaves the
\* callbacks in flight, the tracker and the gate flags as they are; a callback in
\* flight can always go on, stopped or not: it marks the tracker and calls the
\* pipeline with all its new discs; and ending, it clears the gate flags.
C9_StopOnlyPreventsTicks ==
    /\ [][/\ \A t \in TaskIds : Started(t) => isPolling
          /\ (isPolling /\ ~isPolling') =>
                /\ tasks' = tasks /\ processedDiscs' = processedDiscs
                /\ currentOperation' = currentOperation /\ isChecking' = isChecking
          /\ \A t \in TaskIds :
                /\ (~isPolling /\ tasks[t].pc = "enrich" /\ tasks'[t].pc # "enrich"
                               /\ ~ScanFailed(t))
                      => /\ Invoked(t)
                         /\ Plain(tasks'[t].batch) = tasks[t].newDiscs
                         /\ \A x \in tasks[t].newDiscs : processedDiscs'[x.driveNumber] = x.title
                /\ Ended(t) => currentOperation' = "null"
                /\ Returned(t) => ~isChecking']_vars
    /\ [](\A t \in InFlight : ENABLED Resume(t))

\* stop() was called during a scan cycle, whose run was dispatched afterwards
C9_Witness ==
    \E t \in TaskIds :
        /\ ~isPolling /\ timers = {}
        /\ tasks[t].pc = "pipeline" /\ status = Publish("processing")

\* C10: when the detection or the enrichment call raises, the cycle ends: the
\* tracker and the processing flag are as before, no pipeline call is made, no
\* status is published, the discs the cycle had selected have no entry, and any
\* disc then in a drive without entry is selected by a scan that detects it; the
\* callback then clears the scan flag, which opens the gate.
C10_ScanErrorRetried ==
    [][\A t \in TaskIds :
          /\ ScanFailed(t) =>
                /\ processedDiscs' = processedDiscs
                /\ currentOperation' = currentOperation
                /\ ~status'.fresh
                /\ \A x \in tasks[t].newDiscs : processedDiscs'[x.driveNumber] = NoTitle
                /\ \A snap \in Snapshots : \A x \in snap :
                       processedDiscs'[x.driveNumber] = NoTitle
                           => x \in WouldSelect(processedDiscs', snap)
          /\ (Returned(t) /\ tasks[t].outcome = "scanerror") =>
                /\ ~isChecking'
                /\ ~GateClosed(currentOperation', isChecking')]_vars

\* the enrichment call raised for a cycle that had selected new discs
C10_Witness ==
    \E t \in TaskIds :
        /\ tasks[t].pc = "finally" /\ tasks[t].outcome = "scanerror"
        /\ tasks[t].newDiscs # {}
        /\ \A x \in tasks[t].newDiscs : drives[x.driveNumber] = x.title

\* ---------------------------------------------------------------- liveness
\* a tick that finds the gate open
TickStarts == \E id \in TimerIds : TimerTick(id) /\ ~GateClosed(currentOperation, isChecking)

\* an armed interval timer keeps firing, and a collaborator call in flight (and
\* the microtask that follows it) eventually returns or raises
FairSpec ==
    /\ Spec
    /\ WF_vars(TickStarts)
    /\ WF_vars(\E t \in TaskIds : Resume(t))

\* C11: with ticks firing and collaborator calls ending, the scan flag and the
\* processing flag are cleared again whenever they are set, and whenever the
\* service polls with no callback in flight, a new scan cycle starts (or polling
\* is stopped first).
C11_GateReopens ==
    /\ isChecking ~> ~isChecking
    /\ (currentOperation = "processing") ~> (currentOperation = "null")
    /\ (isPolling /\ InFlight = {}) ~> (~isPolling \/ \E t \in TaskIds : tasks[t].pc = "import")

\* a new scan cycle has started after a run failed, the failed disc still in its drive
C11_Witness ==
    \E t \in TaskIds, d \in Drives :
        /\ failedHeld[d] /\ isPolling
        /\ tasks[t].pc = "import"

\* C12: start() while polling and stop() while not polling change nothing of the
\* service and publish nothing; start() from stopped arms one timer and publishes
\* 'scanning', stop() from running cancels the timer and publishes 'idle'; neither
\* touches the tracker, the gate flags or the callbacks in flight.
C12_StartStopIdempotent ==
    [][/\ ((start /\ isPolling) \/ (stop /\ ~isPolling)) =>
              /\ UNCHANGED <<service, tasks, env, autoRipMode>>
              /\ ~status'.fresh /\ status'.last = status.last
       /\ (start /\ ~isPolling) =>
              /\ isPolling' /\ pollInterval' # NoTimer /\ timers' = {pollInterval'}
              /\ status' = Publish("scanning")
              /\ UNCHANGED <<processedDiscs, currentOperation, isChecking, tasks>>
       /\ (stop /\ isPolling) =>
              /\ ~isPolling' /\ pollInterval' = NoTimer /\ timers' = {}
              /\ status' = Publish("idle")
              /\ UNCHANGED <<processedDiscs, currentOperation, isChecking, tasks>>]_vars

\* start() has just armed the timer again, after a stop() during a scan cycle
C12_Witness ==
    /\ isPolling /\ timers = {pollInterval} /\ status = Publish("scanning")
    /\ InFlight # {}

\* C13: a processing run calls one pipeline entry point, once, with the whole
\* batch: the rip entry point when the mode is 'rip', the backup entry point when
\* it is 'backup'; the call stays the same until the run ends.
C13_ModeRouting ==
    [][\A t \in TaskIds :
          /\ Invoked(t) =>
                /\ autoRipMode = "rip" => tasks'[t].entry = "rip"
                /\ autoRipMode = "backup" => tasks'[t].entry = "backup"
                /\ tasks'[t].batch = GetCompleteDiscInfo(tasks[t].newDiscs)
                /\ tasks'[t].batch # {}
          /\ tasks'[t].pc = "pipeline" => (Invoked(t) \/ tasks'[t] = tasks[t])
          /\ tasks'[t].entry # "none" => tasks'[t].pc \in {"pipeline", "finally"}]_vars

\* a run in backup mode has called the backup entry point with two discs
C13_Witness ==
    \E t \in TaskIds :
        /\ tasks[t].pc = "pipeline" /\ autoRipMode = "backup"
        /\ tasks[t].entry = "backup" /\ Cardinality(tasks[t].batch) = 2

\* C14: getStatus() changes nothing and publishes nothing; the isPolling it
\* returns is false at first, true after a start(), false after a stop() and
\* changed by nothing else; the currentOperation it returns is 'processing'
\* exactly while a pipeline call is in flight, and null otherwise.
C14_GetStatusPureRead ==
    /\ ~GetStatus.isPolling
    /\ [](GetStatus.currentOperation =
              IF \E t \in TaskIds : tasks[t].pc = "pipeline" THEN "processing" ELSE "null")
    /\ [][/\ getStatus => (UNCHANGED <<service, tasks, env, autoRipMode>> /\ ~status'.fresh)
          /\ (start /\ ~isPolling) => GetStatus'.isPolling
          /\ (stop /\ isPolling) => ~GetStatus'.isPolling
          /\ (GetStatus'.isPolling # GetStatus.isPolling) =>
                 ((start /\ ~isPolling) \/ (stop /\ isPolling))]_vars

\* getStatus() returns isPolling false with currentOperation 'processing'
C14_Witness ==
    /\ GetStatus = [isPolling |-> FALSE, currentOperation |-> "processing"]
    /\ ~status.fresh
    /\ \E t \in TaskIds : tasks[t].pc = "pipeline"

\* C15: a disc that was dispatched, ejected and put back into its drive under the
\* same title is in a new batch only if a scan cycle observed the drive without
\* it (empty, or under another title) in between; and if one did, the next scan
\* cycle that detects the disc selects it as new.
C15_ReinsertNeedsObservedGap ==
    [][\A t \in TaskIds, d \in Drives :
          /\ (Invoked(t) /\ drives[d] # NoTitle /\ ins[d].gone = drives[d]
                         /\ Disc(d, drives[d]) \in Plain(tasks'[t].batch))
                => ins[d].seen
          /\ (Scanned(t) /\ drives[d] # NoTitle /\ ins[d].gone = drives[d] /\ ins[d].m = 0)
                => (ins[d].seen <=> Disc(d, drives[d]) \in tasks'[t].newDiscs)]_vars

\* the reinserted disc is selected as new after a scan cycle saw its drive empty
C15_Witness ==
    \E t \in TaskIds, d \in Drives :
        /\ tasks[t].pc = "enrich" /\ Disc(d, drives[d]) \in tasks[t].newDiscs
        /\ ins[d].gone = drives[d] /\ ins[d].seen /\ ins[d].m = 0

\* the reinserted disc is scanned and not selected: no scan cycle saw the gap
C15_WitnessUnseen ==
    \E t \in TaskIds, d \in Drives :
        /\ tasks[t].pc = "finally" /\ tasks[t].outcome = "nonew"
        /\ drives[d] # NoTitle /\ ins[d].gone = drives[d] /\ ~ins[d].seen /\ ins[d].m = 0

\* C16: a tick that fires while the scan flag or the processing flag is set
\* changes nothing, calls nothing and publishes nothing; a tick that fires with
\* both flags clear starts exactly one scan cycle; a scan cycle starts in no
\* other step, in particular not in the step that reopens the gate.
C16_TicksDroppedNotDeferred ==
    [][/\ \A id \in TimerIds :
             /\ (TimerTick(id) /\ (isChecking \/ currentOperation # "null")) =>
                    /\ UNCHANGED <<service, tasks, env, autoRipMode>>
                    /\ ~status'.fresh /\ status'.last = status.last
             /\ (TimerTick(id) /\ ~isChecking /\ currentOperation = "null") =>
                    /\ Cardinality({t \in TaskIds : Started(t)}) = 1
                    /\ isChecking'
       /\ \A t \in TaskIds :
             /\ Started(t) =>
                    /\ \E id \in timers : TimerTick(id)
                    /\ ~isChecking /\ currentOperation = "null"
                    /\ tasks'[t].pc = "import"
             /\ (Returned(t) \/ Ended(t)) => \A u \in TaskIds : ~Started(u)]_vars

\* a quiet step during a processing run, the timer armed
C16_Witness ==
    \E t \in TaskIds :
        /\ tasks[t].pc = "pipeline" /\ timers # {} /\ isChecking
        /\ status = [last |-> "processing", fresh |-> FALSE]

\* C17: when the detection returns, the cycle calls the enrichment exactly if
\* some detected disc has no entry after the cleanup, with exactly those discs,
\* and no cycle calls it a second time; a cycle without new discs ends with no
\* pipeline call, no status and no new entry: it can only have deleted entries.
C17_EnrichOnlyNew ==
    [][\A t \in TaskIds :
          /\ Scanned(t) =>
                LET fresh == {x \in DetectAvailableDiscs(drives) :
                                  processedDiscs'[x.driveNumber] = NoTitle}
                IN  /\ tasks'[t].newDiscs = fresh
                    /\ tasks'[t].pc = "enrich" <=> fresh # {}
                    /\ \A d \in Drives : processedDiscs'[d] \in {processedDiscs[d], NoTitle}
                    /\ currentOperation' = currentOperation /\ ~status'.fresh
          /\ tasks'[t].pc = "enrich" => (Scanned(t) \/ tasks'[t] = tasks[t])
          /\ (tasks[t].pc = "finally" /\ tasks[t].outcome = "nonew") =>
                /\ tasks'[t] = tasks[t] \/ Returned(t)
                /\ Returned(t) =>
                       /\ processedDiscs' = processedDiscs
                       /\ currentOperation' = currentOperation /\ ~status'.fresh]_vars

\* a cycle without new discs whose only effect was a deletion
C17_Witness ==
    \E t \in TaskIds :
        /\ tasks[t].pc = "finally" /\ tasks[t].outcome = "nonew"
        /\ tasks[t].purged # {}
        /\ \E d \in Drives : drives[d] # NoTitle /\ processedDiscs[d] = drives[d]

\* C18: start() and stop() leave the tracker as it is, and a disc that was
\* dispatched under its title and stays in its drive is in no later batch,
\* whatever calls of stop() and start() come in between.
C18_TrackerSurvivesRestart ==
    [][/\ (start \/ stop) => processedDiscs' = processedDiscs
       /\ \A d \in Drives :
             (ins[d].m >= 1 /\ drives[d] # NoTitle) =>
                 /\ processedDiscs[d] = drives[d]
                 /\ \A t \in TaskIds : Invoked(t) => d \notin DrivesOf(tasks'[t].batch)]_vars

\* start() has just restarted the service, and the tracker still holds the disc
\* that was dispatched before the stop
C18_Witness ==
    /\ isPolling /\ status = Publish("scanning") /\ InFlight = {}
    /\ \E d \in Drives :
           ins[d].m = 1 /\ drives[d] # NoTitle /\ processedDiscs[d] = drives[d]

\* C19: currentOperation is 'processing' only while isChecking is set, and the
\* step that clears isChecking finds currentOperation already reset to null.
C19_ProcessingInsideScan ==
    /\ [](currentOperation = "processing" => isChecking)
    /\ [][/\ (currentOperation = "null" /\ currentOperation' = "processing") =>
                 (isChecking /\ isChecking')
          /\ (isChecking /\ ~isChecking') =>
                 (currentOperation = "null" /\ currentOperation' = "null")]_vars

\* a processing run has ended and reset currentOperation; the callback that
\* made it still holds isChecking
C19_Witness ==
    \E t \in TaskIds :
        /\ tasks[t].pc = "finally" /\ tasks[t].outcome \in {"ok", "failed"}
        /\ currentOperation = "null" /\ isChecking

\* C20: at most one interval timer is armed; one is armed exactly when isPolling
\* is set, and it is the one pollInterval holds.
C20_OneTimer ==
    /\ Cardinality(timers) <= 1
    /\ timers # {} <=> isPolling
    /\ timers = IF isPolling THEN {pollInterval} ELSE {}
    /\ ~isPolling => pollInterval = NoTimer

\* start() has just armed the timer again, in a service that had a failed run
\* before it was stopped
C20_Witness ==
    /\ isPolling /\ Cardinality(timers) = 1 /\ status = Publish("scanning")
    /\ InFlight = {}
    /\ \E d \in Drives : failedHeld[d]

====
